---- MODULE Spec2Model ----
(***************************************************************************)
(* Model of src/ebal.py: a Telegram catalog bot.                           *)
(*                                                                         *)
(* State: the ConversationHandler's per-user conversation state, each      *)
(* user's context.user_data, the sqlite tables users and models, the       *)
(* module-level geocoder_cache (a TTLCache) with the clock it reads, and   *)
(* a record of what the last update did.                                   *)
(*                                                                         *)
(* Texts are sequences of one-character strings, so that split, strip,     *)
(* lower, int() and float() are computed from the characters.              *)
(***************************************************************************)
EXTENDS Integers, Sequences, FiniteSets, TLC

\* ------------------------------------------------------------------ bounds

\* Updates processed in one run.
MaxSteps == 2
\* Buttons pressed in a run of the delete flow, at most.
MaxPresses == 3
\* Rows of the models table an inline query is answered from, at most.
MaxModels == 6
\* Distinct coordinate pairs users share.
NumCoords == 2

\* ------------------------------------------------------- program constants

ADMIN_ID == 1
ttl == 3600
maxsize == 2000
MIN_AGE == 18
page_size == 5
MIN_DEPOSIT == 100
MAX_DEPOSIT == 100000

\* The conversation states, range(8), by name.
SELECT_CITY == "SELECT_CITY"
MANUAL_CITY_INPUT == "MANUAL_CITY_INPUT"
CONFIRM_CITY == "CONFIRM_CITY"
MAIN_MENU == "MAIN_MENU"
DEPOSIT_AMOUNT == "DEPOSIT_AMOUNT"
GET_MODEL_DATA == "GET_MODEL_DATA"
GET_MODEL_PHOTO == "GET_MODEL_PHOTO"
CONFIRM_DELETE_MODEL == "CONFIRM_DELETE_MODEL"

\* ConversationHandler.END.
END == "END"

States == {SELECT_CITY, MANUAL_CITY_INPUT, CONFIRM_CITY, MAIN_MENU,
           DEPOSIT_AMOUNT, GET_MODEL_DATA, GET_MODEL_PHOTO, CONFIRM_DELETE_MODEL}

\* No entry in ConversationHandler._conversations for the user.
NoConv == "NoConv"
\* A handler that returns None (falls off its end).
RetNone == "None"
\* A handler that raised: the dispatcher logs it and keeps the state.
Raised == "raised"
\* A NULL text column, an address field that is absent (no text holds this
\* token).
NULL == <<"NULL">>

Users == {ADMIN_ID, ADMIN_ID + 1}

\* -------------------------------------------------------------------- text

Digits == {"0", "1", "2", "3", "4", "5", "6", "7", "8", "9"}

DigitVal(c) ==
    CASE c = "0" -> 0 [] c = "1" -> 1 [] c = "2" -> 2 [] c = "3" -> 3
      [] c = "4" -> 4 [] c = "5" -> 5 [] c = "6" -> 6 [] c = "7" -> 7
      [] c = "8" -> 8 [] c = "9" -> 9

\* str.lower() on the letters the inputs use; "U+041C" and "U+043C" are the
\* Cyrillic capital and small letter em.
LowerChar(c) ==
    CASE c = "A" -> "a" [] c = "K" -> "k" [] c = "M" -> "m" [] c = "U" -> "u"
      [] c = "U+041C" -> "U+043C"
      [] OTHER -> c

Lower(s) == [i \in 1..Len(s) |-> LowerChar(s[i])]

\* SQLite's LOWER(): only the ASCII letters are converted.
SqlLowerChar(c) ==
    CASE c = "A" -> "a" [] c = "K" -> "k" [] c = "M" -> "m" [] c = "U" -> "u"
      [] OTHER -> c

SqlLower(s) == [i \in 1..Len(s) |-> SqlLowerChar(s[i])]

\* str.replace(a, b) for one-character a and b.
Replace(s, a, b) == [i \in 1..Len(s) |-> IF s[i] = a THEN b ELSE s[i]]

RECURSIVE LStrip(_)
LStrip(s) == IF s # <<>> /\ Head(s) = " " THEN LStrip(Tail(s)) ELSE s

RECURSIVE RStrip(_)
RStrip(s) ==
    IF s # <<>> /\ s[Len(s)] = " " THEN RStrip(SubSeq(s, 1, Len(s) - 1)) ELSE s

\* str.strip().
Strip(s) == RStrip(LStrip(s))

\* str.split(sep): the fields between the separators, empty ones kept.
RECURSIVE SplitFrom(_, _, _)
SplitFrom(s, sep, cur) ==
    IF s = <<>> THEN <<cur>>
    ELSE IF Head(s) = sep THEN <<cur>> \o SplitFrom(Tail(s), sep, <<>>)
    ELSE SplitFrom(Tail(s), sep, Append(cur, Head(s)))

Split(s, sep) == SplitFrom(s, sep, <<>>)

StartsWith(s, p) == Len(s) >= Len(p) /\ SubSeq(s, 1, Len(p)) = p

AllDigits(s) == \A i \in 1..Len(s) : s[i] \in Digits

RECURSIVE DigitsVal(_)
DigitsVal(s) ==
    IF s = <<>> THEN 0
    ELSE 10 * DigitsVal(SubSeq(s, 1, Len(s) - 1)) + DigitVal(s[Len(s)])

\* int(s): surrounding blanks, an optional sign, then decimal digits.
\* ok = FALSE is the ValueError.
ParseInt(s) ==
    LET t == Strip(s)
        signed == t # <<>> /\ Head(t) \in {"+", "-"}
        d == IF signed THEN Tail(t) ELSE t
    IN IF d # <<>> /\ AllDigits(d)
       THEN [ok |-> TRUE,
             val |-> IF signed /\ Head(t) = "-" THEN 0 - DigitsVal(d) ELSE DigitsVal(d)]
       ELSE [ok |-> FALSE, val |-> 0]

DigitChar(d) ==
    CASE d = 0 -> "0" [] d = 1 -> "1" [] d = 2 -> "2" [] d = 3 -> "3"
      [] d = 4 -> "4" [] d = 5 -> "5" [] d = 6 -> "6" [] d = 7 -> "7"
      [] d = 8 -> "8" [] d = 9 -> "9"

RECURSIVE NatStr(_)
NatStr(n) ==
    IF n < 10 THEN <<DigitChar(n)>>
    ELSE Append(NatStr(n \div 10), DigitChar(n % 10))

\* str(n) of an int
Str(n) == IF n < 0 THEN <<"-">> \o NatStr(0 - n) ELSE NatStr(n)

\* The fraction digits as thousandths ("5" is 500, "125" is 125).
Thousandths(f) ==
    DigitsVal(f) * (CASE Len(f) = 0 -> 0 [] Len(f) = 1 -> 100
                      [] Len(f) = 2 -> 10 [] OTHER -> 1)

\* float(s) for decimal literals: surrounding blanks, an optional sign, digits
\* with at most one point and at least one digit. The value is held in
\* thousandths; literals of at most three fraction digits are covered.
ParseFloat(s) ==
    LET t == Strip(s)
        signed == t # <<>> /\ Head(t) \in {"+", "-"}
        d == IF signed THEN Tail(t) ELSE t
        parts == Split(d, ".")
        ip == parts[1]
        fp == IF Len(parts) = 2 THEN parts[2] ELSE <<>>
        wellFormed == /\ Len(parts) \in {1, 2}
                      /\ AllDigits(ip) /\ AllDigits(fp)
                      /\ Len(ip) + Len(fp) > 0
                      /\ Len(fp) <= 3
        mag == DigitsVal(ip) * 1000 + Thousandths(fp)
    IN IF wellFormed
       THEN [ok |-> TRUE,
             val |-> IF signed /\ Head(t) = "-" THEN 0 - mag ELSE mag]
       ELSE [ok |-> FALSE, val |-> 0]

\* ------------------------------------------------------------ input texts

Sep == <<" ", "|", " ">>
W_Anna == <<"A", "n", "n", "a">>
W_Moskva == <<"M", "o", "s", "k", "v", "a">>
W_Kazan == <<"K", "a", "z", "a", "n">>
W_abc == <<"a", "b", "c">>
W_17 == <<"1", "7">>
W_18 == <<"1", "8">>
W_25 == <<"2", "5">>
W_0 == <<"0">>
W_5000 == <<"5", "0", "0", "0">>
W_99 == <<"9", "9">>
W_100 == <<"1", "0", "0">>
W_100000 == <<"1", "0", "0", "0", "0", "0">>

\* The label of the reply-keyboard button ask_city shows (a pictograph and
\* "Vvesti gorod vruchnuyu"), as one token.
MANUAL_BUTTON_TEXT == <<"[", "m", "]">>

\* 'Unknown', the resolver's failure value.
UNKNOWN == <<"U", "n", "k", "n", "o", "w", "n">>

Line4(a, b, c, d) == a \o Sep \o b \o Sep \o c \o Sep \o d

\* Amounts: below the minimum, the two limits, above the maximum, a comma
\* as decimal mark before a fraction finer than a kopeck, and no number.
\* Every fraction is a multiple of 1/8, for which the binary float of the
\* source and this decimal arithmetic agree.
DepositTexts ==
    { W_99, W_100, W_100000,
      W_100000 \o <<".", "5">>,
      W_100 \o <<",", "1", "2", "5">>,
      W_abc }

\* Model lines: valid ones (one at the minimum age), and one for each way
\* of being invalid.
ModelTexts ==
    { Line4(W_Anna, W_25, W_Moskva, W_5000),
      Line4(W_Anna, W_18, W_Kazan, W_5000),
      Line4(W_Anna, W_17, W_Moskva, W_5000),
      Line4(W_Anna, W_25, W_Moskva, W_0),
      Line4(<<" ">>, W_25, W_Moskva, W_5000),
      Line4(W_Anna, W_abc, W_Moskva, W_5000),
      W_Anna \o Sep \o W_25 \o Sep \o W_Moskva }

CityTexts == { W_Moskva, W_Kazan, MANUAL_BUTTON_TEXT }

\* The texts of TextMessage events (none starts with "/": commands are
\* separate events).
Texts == DepositTexts \cup ModelTexts \cup CityTexts

\* Location(latitude, longitude).
Coords == { [latitude |-> 54 + i, longitude |-> 37] : i \in 1..NumCoords }

\* Opaque file ids of uploaded photos, each one token.
PhotoRefs == { <<"file_a">>, <<"file_b">> }

\* callback_data, character by character.
D_continue == <<"c", "o", "n", "t", "i", "n", "u", "e">>
D_my_account == <<"m", "y", "_", "a", "c", "c", "o", "u", "n", "t">>
D_deposit_card == <<"d", "e", "p", "o", "s", "i", "t", "_", "c", "a", "r", "d">>
D_back == <<"b", "a", "c", "k">>
D_add_model == <<"a", "d", "d", "_", "m", "o", "d", "e", "l">>
D_delete_model == <<"d", "e", "l", "e", "t", "e", "_", "m", "o", "d", "e", "l">>
D_del_ == <<"d", "e", "l", "_">>
D_confirm_del == <<"c", "o", "n", "f", "i", "r", "m", "_", "d", "e", "l">>
D_cancel_del == <<"c", "a", "n", "c", "e", "l", "_", "d", "e", "l">>
D_back_admin == <<"b", "a", "c", "k", "_", "a", "d", "m", "i", "n">>
D_auto_city == <<"a", "u", "t", "o", "_", "c", "i", "t", "y">>
D_manual_city == <<"m", "a", "n", "u", "a", "l", "_", "c", "i", "t", "y">>
D_confirm_city == <<"c", "o", "n", "f", "i", "r", "m", "_", "c", "i", "t", "y">>
D_change_city == <<"c", "h", "a", "n", "g", "e", "_", "c", "i", "t", "y">>

\* The callback_data the buttons of the bot carry: del_<id> for a row there
\* is (1) and one there is not (3), and a del_ token with no number.
CallbackData ==
    { D_continue, D_deposit_card, D_back, D_add_model,
      D_delete_model, D_confirm_del, D_cancel_del, D_back_admin,
      D_confirm_city, D_change_city,
      D_del_ \o <<"1">>, D_del_ \o <<"3">>, D_del_ \o <<"x">> }

\* ------------------------------------------------------ geocoder outcomes

AddressFields == <<"city", "town", "village", "county", "state">>

NoAddress == [f \in {"city", "town", "village", "county", "state"} |-> NULL]

\* What geolocator.reverse can do: raise, return None, or return a location
\* whose raw address holds some of the fields (one of them empty).
PrimaryOutcomes ==
    { [kind |-> "raise", address |-> NoAddress],
      [kind |-> "none", address |-> NoAddress],
      [kind |-> "found", address |-> NoAddress],
      [kind |-> "found", address |-> [NoAddress EXCEPT !["city"] = W_Moskva]],
      [kind |-> "found",
       address |-> [NoAddress EXCEPT !["city"] = <<>>, !["town"] = W_Kazan,
                                     !["state"] = W_Moskva]] }

\* What google_geocoder.reverse can do: raise, return None, or return a
\* location with address components.
SecondaryOutcomes ==
    { [kind |-> "raise", components |-> <<>>],
      [kind |-> "none", components |-> <<>>],
      [kind |-> "found",
       components |-> << [long_name |-> W_abc, types |-> {"route"}] >>],
      [kind |-> "found",
       components |-> << [long_name |-> W_abc, types |-> {"route"}],
                         [long_name |-> W_Kazan, types |-> {"locality", "political"}],
                         [long_name |-> W_Moskva,
                          types |-> {"administrative_area_level_2"}] >>] }

\* What geolocator.geocode can do for a name.
GeocodeOutcomes == { "found", "none", "raise" }

\* ------------------------------------------------------------------ state

VARIABLES
    conv,        \* ConversationHandler._conversations: user -> state or NoConv
    userData,    \* context.user_data of each user
    dbUsers,     \* table users: user_id -> row, for the rows there are
    dbModels,    \* table models: rows in rowid order
    nextId,      \* the next AUTOINCREMENT id of models
    cache,       \* geocoder_cache: entries, oldest first
    now,         \* the clock the TTLCache reads, in seconds
    validated,   \* history: the names validate_city has answered True for
    resolvedLog, \* history: cache key -> the city the providers last gave, and when
    last,        \* history: what the last update did, and which update came before
    steps        \* updates processed

vars == <<conv, userData, dbUsers, dbModels, nextId, cache, now, validated,
          resolvedLog, last, steps>>

\* ------------------------------------------------------------ dict helpers

SetKey(d, k, v) == [x \in (DOMAIN d) \cup {k} |-> IF x = k THEN v ELSE d[x]]

DelKey(d, k) == [x \in (DOMAIN d) \ {k} |-> d[x]]

EmptyDict == [x \in {} |-> NULL]

\* ------------------------------------------------------- geocoder_cache

\* f"{location.latitude}_{location.longitude}"
CacheKey(loc) == <<loc.latitude, "_", loc.longitude>>

\* TTLCache: an entry is expired once the timer is no longer below expires.
Unexpired(c, t) == SelectSeq(c, LAMBDA e : t < e.expires)

\* cache_key in geocoder_cache
CacheContains(c, t, key) == \E i \in 1..Len(c) : c[i].key = key /\ t < c[i].expires

\* geocoder_cache[cache_key], for a key the cache contains
CacheGet(c, t, key) ==
    LET i == CHOOSE j \in 1..Len(c) : c[j].key = key /\ t < c[j].expires
    IN c[i].value

\* CacheSet with a time to live of 0: the entry is expired as it is written.
CacheSetNoTtl(c, t, key, value) ==
    Append(SelectSeq(Unexpired(c, t), LAMBDA e : e.key # key),
           [key |-> key, value |-> value, expires |-> t])

\* CacheSet that stores nothing.
CacheSetDropped(c, t, key, value) == c

\* geocoder_cache[cache_key] = city: expired entries go, a new key in a full
\* cache evicts the oldest entry, the entry is (re)placed last with a fresh
\* expiry.
CacheSet(c, t, key, value) ==
    LET live == Unexpired(c, t)
        has == \E i \in 1..Len(live) : live[i].key = key
        room == IF ~has /\ Len(live) + 1 > maxsize THEN Tail(live) ELSE live
        rest == SelectSeq(room, LAMBDA e : e.key # key)
    IN Append(rest, [key |-> key, value |-> value, expires |-> t + ttl])

\* ---------------------------------------------------------- CityResolver

Truthy(x) == x # NULL /\ x # <<>>

\* address.get('city') or ... or address.get('state') or 'Unknown'
PickCity(address) ==
    LET present == { i \in 1..Len(AddressFields) : Truthy(address[AddressFields[i]]) }
    IN IF present = {} THEN UNKNOWN
       ELSE address[AddressFields[CHOOSE i \in present : \A j \in present : i <= j]]

\* next((comp['long_name'] for comp in address if 'locality' in comp['types']
\*       or 'administrative_area_level_2' in comp['types']), 'Unknown')
PickComponent(components) ==
    LET hits == { i \in 1..Len(components) :
                    \/ "locality" \in components[i].types
                    \/ "administrative_area_level_2" \in components[i].types }
    IN IF hits = {} THEN UNKNOWN
       ELSE components[CHOOSE i \in hits : \A j \in hits : i <= j].long_name

\* get_city_from_location giving up after the primary provider.
GetCityFromLocationPrimaryOnly(c, t, loc, p1, p2) ==
    LET key == CacheKey(loc)
        city1 == IF p1.kind = "found" THEN PickCity(p1.address) ELSE UNKNOWN
    IN IF CacheContains(c, t, key)
       THEN [city |-> CacheGet(c, t, key), cache |-> c, calls |-> <<>>]
       ELSE IF city1 # UNKNOWN
       THEN [city |-> city1, cache |-> CacheSet(c, t, key, city1),
             calls |-> <<"primary">>]
       ELSE [city |-> UNKNOWN, cache |-> c, calls |-> <<"primary">>]

\* get_city_from_location with the two providers doing p1 and p2: the city
\* returned, the cache afterwards and the provider calls made, in order.
GetCityFromLocation(c, t, loc, p1, p2) ==
    LET key == CacheKey(loc)
        city1 == IF p1.kind = "found" THEN PickCity(p1.address) ELSE UNKNOWN
        city2 == IF p2.kind = "found" THEN PickComponent(p2.components) ELSE UNKNOWN
    IN IF CacheContains(c, t, key)
       THEN [city |-> CacheGet(c, t, key), cache |-> c, calls |-> <<>>]
       ELSE IF p1.kind = "raise"
       THEN [city |-> UNKNOWN, cache |-> c, calls |-> <<"primary">>]
       ELSE IF city1 # UNKNOWN
       THEN [city |-> city1, cache |-> CacheSet(c, t, key, city1),
             calls |-> <<"primary">>]
       ELSE IF p2.kind = "raise"
       THEN [city |-> UNKNOWN, cache |-> c, calls |-> <<"primary", "secondary">>]
       ELSE IF city2 # UNKNOWN
       THEN [city |-> city2, cache |-> CacheSet(c, t, key, city2),
             calls |-> <<"primary", "secondary">>]
       ELSE [city |-> UNKNOWN, cache |-> c, calls |-> <<"primary", "secondary">>]

\* validate_city: True only when geocode returns a location.
ValidateCity(v) == v = "found"

\* --------------------------------------------------------------- Database

\* UPDATE users SET city = ? WHERE user_id = ?   (ok = FALSE: sqlite3.Error,
\* logged and rolled back by Database.execute)
DbSetCity(users, u, c, ok) ==
    IF ok /\ u \in DOMAIN users THEN [users EXCEPT ![u].city = c] ELSE users

\* UPDATE users SET balance = balance + ? WHERE user_id = ?
DbAddBalance(users, u, amount, ok) ==
    IF ok /\ u \in DOMAIN users
    THEN [users EXCEPT ![u].balance = @ + amount] ELSE users

\* INSERT OR IGNORE INTO users (user_id) VALUES (?)
DbInsertUser(users, u, ok) ==
    IF ok /\ u \notin DOMAIN users
    THEN [x \in (DOMAIN users) \cup {u} |->
            IF x = u THEN [city |-> NULL, balance |-> 0] ELSE users[x]]
    ELSE users

\* DELETE FROM models WHERE id = ?   (ids: the ids to match, none for None)
DbDeleteModel(models, ids, ok) ==
    IF ok THEN SelectSeq(models, LAMBDA m : m.id \notin ids) ELSE models

\* -------------------------------------------------------- handler effects
\* What a handler does to the state it can touch, and what it returns:
\* ret is a state, END, RetNone or Raised; calls and resolved are the
\* provider calls get_city_from_location made and the city it returned;
\* geocode is what geolocator.geocode did for validate_city, when it was
\* asked; dbError is whether Database.execute logged a sqlite3.Error.

Same(u) ==
    [ret |-> RetNone, ud |-> userData[u], users |-> dbUsers, models |-> dbModels,
     nextId |-> nextId, cache |-> cache, validated |-> validated,
     calls |-> <<>>, resolved |-> <<>>, replies |-> <<>>,
     geocode |-> "not_asked", dbError |-> FALSE]

Reply(e, r, ret) == [e EXCEPT !.replies = Append(@, r), !.ret = ret]

\* validate_and_confirm_city, continuing from effect e.
ValidateAndConfirmCity(u, city, v, ok, e) ==
    LET e1 == [e EXCEPT !.users = DbSetCity(@, u, Lower(city), ok),
                        !.dbError = ~ok, !.geocode = v]
    IN IF ~ValidateCity(v)
       THEN Reply(e1, "city_not_found", MANUAL_CITY_INPUT)
       ELSE Reply([e1 EXCEPT !.ud = SetKey(@, "city", Lower(city)),
                             !.validated = @ \cup {city}],
                  "confirm_city_prompt", CONFIRM_CITY)

\* start
StartEff(u, ok) ==
    Reply([Same(u) EXCEPT !.users = DbInsertUser(@, u, ok), !.dbError = ~ok],
          "welcome", RetNone)

\* handle_location without its test for 'Unknown'.
HandleLocationNoUnknownCheck(u, loc, p1, p2, v, ok) ==
    LET r == GetCityFromLocation(cache, now, loc, p1, p2)
        e == [Same(u) EXCEPT !.cache = r.cache, !.calls = r.calls,
                             !.resolved = r.city]
    IN ValidateAndConfirmCity(u, r.city, v, ok, e)

\* handle_location
HandleLocationEff(u, loc, p1, p2, v, ok) ==
    LET r == GetCityFromLocation(cache, now, loc, p1, p2)
        e == [Same(u) EXCEPT !.cache = r.cache, !.calls = r.calls,
                             !.resolved = r.city]
    IN IF r.city = UNKNOWN
       THEN Reply(e, "city_unknown", MANUAL_CITY_INPUT)
       ELSE ValidateAndConfirmCity(u, r.city, v, ok, e)

\* ask_city: it answers through update.callback_query, which a message
\* update does not have (hasQuery = FALSE: AttributeError).
AskCityEff(u, hasQuery) ==
    IF hasQuery THEN Reply(Same(u), "ask_city", SELECT_CITY)
    ELSE [Same(u) EXCEPT !.ret = Raised]

\* handle_manual_city_input
HandleManualCityInputEff(u, text, v, ok) ==
    IF text = MANUAL_BUTTON_TEXT
    THEN Reply(Same(u), "enter_city", MANUAL_CITY_INPUT)
    ELSE ValidateAndConfirmCity(u, text, v, ok, Same(u))

\* InRange without its lower limit.
InRangeNoMinimum(th) == th <= MAX_DEPOSIT * 1000

\* 100 <= amount <= 100000, on thousandths
InRange(th) == MIN_DEPOSIT * 1000 <= th /\ th <= MAX_DEPOSIT * 1000

\* int(amount * 100), on thousandths
AmountKopecks(th) == th \div 10

\* handle_deposit_amount
HandleDepositAmountEff(u, text, ok) ==
    LET amount == ParseFloat(Replace(text, ",", "."))
    IN IF ~amount.ok \/ ~InRange(amount.val)
       THEN Reply(Same(u), "deposit_bad", DEPOSIT_AMOUNT)
       ELSE Reply([Same(u) EXCEPT
                      !.users = DbAddBalance(@, u, AmountKopecks(amount.val), ok),
                      !.dbError = ~ok],
                  "deposit_ok", RetNone)

\* admin_panel without the comparison with ADMIN_ID.
AdminPanelNoGate(u, hasMessage, e) ==
    IF ~hasMessage THEN [e EXCEPT !.ret = Raised]
    ELSE Reply(e, "admin_panel", RetNone)

\* admin_panel: it answers through update.message, which a callback query
\* update does not have (hasMessage = FALSE: AttributeError).
AdminPanelEff(u, hasMessage, e) ==
    IF ~hasMessage THEN [e EXCEPT !.ret = Raised]
    ELSE IF u # ADMIN_ID THEN Reply(e, "access_denied", END)
    ELSE Reply(e, "admin_panel", RetNone)

\* add_model_flow
AddModelFlowEff(u) == Reply(Same(u), "model_format_prompt", GET_MODEL_DATA)

\* ParseModel without the check of name, age and price.
ParseModelUnchecked(text) ==
    LET raw == Split(text, "|")
        parts == [i \in 1..Len(raw) |-> Strip(raw[i])]
        age == ParseInt(parts[2])
        price == ParseInt(parts[4])
    IN IF Len(parts) # 4 THEN [ok |-> FALSE]
       ELSE IF ~age.ok \/ ~price.ok THEN [ok |-> FALSE]
       ELSE [ok |-> TRUE,
             model |-> [name |-> parts[1], age |-> age.val,
                        city |-> parts[3], price |-> price.val]]

\* ParseModel without the lower limit of the age.
ParseModelAnyAge(text) ==
    LET raw == Split(text, "|")
        parts == [i \in 1..Len(raw) |-> Strip(raw[i])]
        age == ParseInt(parts[2])
        price == ParseInt(parts[4])
    IN IF Len(parts) # 4 THEN [ok |-> FALSE]
       ELSE IF ~age.ok \/ ~price.ok THEN [ok |-> FALSE]
       ELSE IF parts[1] = <<>> \/ price.val <= 0 THEN [ok |-> FALSE]
       ELSE [ok |-> TRUE,
             model |-> [name |-> parts[1], age |-> age.val,
                        city |-> parts[3], price |-> price.val]]

\* The draft save_model accepts from a line, or ok = FALSE.
ParseModel(text) ==
    LET raw == Split(text, "|")
        parts == [i \in 1..Len(raw) |-> Strip(raw[i])]
        age == ParseInt(parts[2])
        price == ParseInt(parts[4])
    IN IF Len(parts) # 4 THEN [ok |-> FALSE]
       ELSE IF ~age.ok \/ ~price.ok THEN [ok |-> FALSE]
       ELSE IF parts[1] = <<>> \/ age.val < MIN_AGE \/ price.val <= 0
       THEN [ok |-> FALSE]
       ELSE [ok |-> TRUE,
             model |-> [name |-> parts[1], age |-> age.val,
                        city |-> parts[3], price |-> price.val]]

\* save_model
SaveModelEff(u, text) ==
    LET p == ParseModel(text)
    IN IF p.ok
       THEN Reply([Same(u) EXCEPT !.ud = SetKey(@, "new_model", p.model)],
                  "send_photo", GET_MODEL_PHOTO)
       ELSE Reply(Same(u), "format_error", GET_MODEL_DATA)

\* INSERT INTO models (name, age, city, photos, price) VALUES (...)
DbInsertModel(e, model, ref, ok) ==
    IF ok
    THEN [e EXCEPT !.models = Append(@, [id |-> e.nextId, name |-> model.name,
                                         age |-> model.age, city |-> model.city,
                                         photos |-> ref, price |-> model.price]),
                   !.nextId = @ + 1]
    ELSE [e EXCEPT !.dbError = TRUE]

\* save_model_photo: the finally clause pops the draft and returns END
\* whatever happened before.
SaveModelPhotoEff(u, ref, ok) ==
    LET e == Same(u)
        body == IF "new_model" \in DOMAIN e.ud
                THEN Reply(DbInsertModel(e, e.ud["new_model"], ref, ok),
                           "model_added", RetNone)
                ELSE Reply(e, "model_save_error", RetNone)
    IN [body EXCEPT !.ud = DelKey(@, "new_model"), !.ret = END]

\* delete_model_flow
DeleteModelFlowEff(u) == Reply(Same(u), "delete_list", CONFIRM_DELETE_MODEL)

\* confirm_delete_model: int() of the id may raise; the selection is stored
\* before the row (None when there is none) is read for the message.
ConfirmDeleteModelEff(u, data) ==
    LET id == ParseInt(Split(data, "_")[2])
        e == [Same(u) EXCEPT !.ud = SetKey(@, "pending_delete", id.val)]
    IN IF ~id.ok THEN [Same(u) EXCEPT !.ret = Raised]
       ELSE IF \E i \in 1..Len(dbModels) : dbModels[i].id = id.val
       THEN Reply(e, "confirm_delete_prompt", CONFIRM_DELETE_MODEL)
       ELSE [e EXCEPT !.ret = Raised]

\* The confirm_del branch of handle_callback_queries.
ConfirmDelEff(u, ok) ==
    LET ids == IF "pending_delete" \in DOMAIN userData[u]
               THEN {userData[u]["pending_delete"]} ELSE {}
        e == Reply([Same(u) EXCEPT !.models = DbDeleteModel(@, ids, ok),
                                   !.dbError = ~ok],
                   "model_deleted", RetNone)
    IN AdminPanelEff(u, FALSE, e)

\* show_account_menu and show_main_menu
ShowMenuEff(u, r) == Reply(Same(u), r, MAIN_MENU)

\* handle_callback_queries, once query.answer() has been sent
HandleCallbackQueriesEff(u, data, ok) ==
    IF data = D_continue THEN AskCityEff(u, TRUE)
    ELSE IF data = D_my_account THEN ShowMenuEff(u, "account_menu")
    ELSE IF data = D_deposit_card THEN Reply(Same(u), "deposit_prompt", DEPOSIT_AMOUNT)
    ELSE IF data = D_back THEN ShowMenuEff(u, "main_menu")
    ELSE IF data = D_add_model THEN AddModelFlowEff(u)
    ELSE IF StartsWith(data, D_del_) THEN ConfirmDeleteModelEff(u, data)
    ELSE IF data = D_confirm_del THEN ConfirmDelEff(u, ok)
    ELSE IF data = D_cancel_del THEN DeleteModelFlowEff(u)
    ELSE IF data = D_back_admin THEN AdminPanelEff(u, FALSE, Same(u))
    ELSE IF data = D_auto_city THEN Reply(Same(u), "send_location", SELECT_CITY)
    ELSE IF data = D_manual_city THEN Reply(Same(u), "enter_city", MANUAL_CITY_INPUT)
    ELSE Same(u)

\* handle_inline_query: the answer sent for an inline query with the given
\* offset string. kind is "no_city" (empty answer), "page" or "error" (the
\* except clause: int() of the offset or a read of the store raised, ok =
\* FALSE); results are the models rows of the page; next_offset is the string
\* passed to answer(), NULL for None; more is whether each result carries the
\* next-page button.
HandleInlineQueryEff(users, models, u, offset, ok) ==
    IF ~ok THEN [kind |-> "error", results |-> <<>>, next_offset |-> NULL, more |-> FALSE]
    ELSE IF u \notin DOMAIN users \/ ~Truthy(users[u].city)
    THEN [kind |-> "no_city", results |-> <<>>, next_offset |-> NULL, more |-> FALSE]
    ELSE LET off == IF offset = <<>> THEN [ok |-> TRUE, val |-> 0] ELSE ParseInt(offset)
             city == Lower(users[u].city)
             hits == SelectSeq(models, LAMBDA m : SqlLower(m.city) = city)
             skip == IF off.val < 0 THEN 0 ELSE off.val
             upto == IF skip + page_size < Len(hits) THEN skip + page_size ELSE Len(hits)
             page == SubSeq(hits, skip + 1, upto)
             next_offset == off.val + page_size
         IN IF ~off.ok
            THEN [kind |-> "error", results |-> <<>>, next_offset |-> NULL, more |-> FALSE]
            ELSE [kind |-> "page", results |-> page,
                  next_offset |-> IF page # <<>> THEN Str(next_offset) ELSE NULL,
                  more |-> Len(page) = page_size]

\* ------------------------------------------------------------- dispatch
\* An update is [kind, text]: kind is "start" or "admin" (the commands),
\* "text", "location", "photo", "callback" or "inline"; text is the message
\* text, the callback_data or the photo's file id.

Event(kind, text) == [kind |-> kind, text |-> text]

\* The first handler of states[s] that accepts the update, or "none".
StateHandler(s, ev) ==
    CASE s = SELECT_CITY /\ ev.kind = "location" -> "handle_location"
      [] s = SELECT_CITY /\ ev.kind = "text" /\ ev.text = MANUAL_BUTTON_TEXT -> "ask_city"
      [] s = MANUAL_CITY_INPUT /\ ev.kind = "text" -> "handle_manual_city_input"
      [] s = CONFIRM_CITY /\ ev.kind = "callback"
           /\ ev.text \in {D_confirm_city, D_change_city} -> "handle_callback_queries"
      [] s = MAIN_MENU /\ ev.kind = "callback" -> "handle_callback_queries"
      [] s = DEPOSIT_AMOUNT /\ ev.kind = "text" -> "handle_deposit_amount"
      [] s = GET_MODEL_DATA /\ ev.kind = "text" -> "save_model"
      [] s = GET_MODEL_PHOTO /\ ev.kind = "photo" -> "save_model_photo"
      [] s = CONFIRM_DELETE_MODEL /\ ev.kind = "callback" -> "handle_callback_queries"
      [] OTHER -> "none"

\* The handler an update of a user in conversation state s reaches, and
\* whether the ConversationHandler runs it (inConv: its return value then
\* moves the conversation). The ConversationHandler is asked first: an
\* inline query has no chat and is not its business; the entry point is
\* tried in every state (allow_reentry); then the handlers of the state,
\* then the fallbacks. What it declines goes to the application's
\* CommandHandler('admin') and CallbackQueryHandler.
Route(s, ev) ==
    IF ev.kind = "inline" THEN [handler |-> "none", inConv |-> FALSE]
    ELSE IF ev.kind = "start" THEN [handler |-> "start", inConv |-> TRUE]
    ELSE IF s # NoConv /\ StateHandler(s, ev) # "none"
    THEN [handler |-> StateHandler(s, ev), inConv |-> TRUE]
    ELSE IF ev.kind = "admin" THEN [handler |-> "admin_panel", inConv |-> s # NoConv]
    ELSE IF ev.kind = "callback"
    THEN [handler |-> "handle_callback_queries", inConv |-> FALSE]
    ELSE [handler |-> "none", inConv |-> FALSE]

\* UpdateState taking a handler that returns None to end the conversation.
UpdateStateNoneEnds(s, inConv, ret) ==
    IF ~inConv THEN s
    ELSE IF ret \in {END, RetNone} THEN NoConv
    ELSE IF ret = Raised THEN s
    ELSE ret

\* ConversationHandler._update_state: END drops the conversation, None (and
\* a handler that raised) keeps the state, anything else becomes the state.
\* Outside the ConversationHandler the return value is dropped.
UpdateState(s, inConv, ret) ==
    IF ~inConv THEN s
    ELSE IF ret = END THEN NoConv
    ELSE IF ret \in {RetNone, Raised} THEN s
    ELSE ret

Pre ==
    [conv |-> conv, userData |-> userData, dbUsers |-> dbUsers,
     dbModels |-> dbModels, cache |-> cache, now |-> now,
     resolvedLog |-> resolvedLog]

\* The geocoders were not asked.
NotAsked == [kind |-> "not_asked"]

\* A resolution of key that went to the providers and came back with a city
\* is logged with its time.
Logged(log, key, e) ==
    IF e.calls # <<>> /\ e.resolved # UNKNOWN
    THEN SetKey(log, key, [city |-> e.resolved, at |-> now])
    ELSE log

\* One update ev of user u with effect e; loc, p1 and p2 are the cache key
\* of a shared location and what the providers do when asked.
Apply(u, ev, loc, p1, p2, e) ==
    LET r == Route(conv[u], ev)
    IN /\ conv' = [conv EXCEPT ![u] = UpdateState(@, r.inConv, e.ret)]
       /\ userData' = [userData EXCEPT ![u] = e.ud]
       /\ dbUsers' = e.users
       /\ dbModels' = e.models
       /\ nextId' = e.nextId
       /\ cache' = e.cache
       /\ validated' = e.validated
       /\ resolvedLog' = Logged(resolvedLog, loc, e)
       /\ last' = [user |-> u, kind |-> ev.kind, handler |-> r.handler,
                   inConv |-> r.inConv, ret |-> e.ret, text |-> ev.text,
                   loc |-> loc, p1 |-> p1,
                   p2 |-> IF Len(e.calls) = 2 THEN p2 ELSE NotAsked,
                   calls |-> e.calls, resolved |-> e.resolved,
                   replies |-> e.replies, geocode |-> e.geocode,
                   dbError |-> e.dbError,
                   prev |-> [user |-> last.user, handler |-> last.handler,
                             text |-> last.text],
                   pre |-> Pre]
       /\ steps' = steps + 1
       /\ now' = now

\* The update reaches handler h (and the run has updates left).
Routed(u, ev, h) == steps < MaxSteps /\ Route(conv[u], ev).handler = h

\* ---------------------------------------------------------------- actions
\* The store writes of the deposit, of the new model and of the deletion may
\* fail (ok = FALSE); those of start and of the city are taken to succeed.

Start(u) ==
    /\ Routed(u, Event("start", <<>>), "start")
    /\ Apply(u, Event("start", <<>>), <<>>, NotAsked, NotAsked, StartEff(u, TRUE))

AdminPanel(u) ==
    /\ Routed(u, Event("admin", <<>>), "admin_panel")
    /\ Apply(u, Event("admin", <<>>), <<>>, NotAsked, NotAsked,
             AdminPanelEff(u, TRUE, Same(u)))

HandleLocation(u) ==
    /\ Routed(u, Event("location", <<>>), "handle_location")
    /\ \E loc \in Coords, p1 \in PrimaryOutcomes, p2 \in SecondaryOutcomes,
          v \in GeocodeOutcomes :
           Apply(u, Event("location", <<>>), CacheKey(loc), p1, p2,
                 HandleLocationEff(u, loc, p1, p2, v, TRUE))

AskCity(u) ==
    /\ Routed(u, Event("text", MANUAL_BUTTON_TEXT), "ask_city")
    /\ Apply(u, Event("text", MANUAL_BUTTON_TEXT), <<>>, NotAsked, NotAsked,
             AskCityEff(u, FALSE))

HandleManualCityInput(u) ==
    \E text \in Texts, v \in GeocodeOutcomes :
        /\ Routed(u, Event("text", text), "handle_manual_city_input")
        /\ Apply(u, Event("text", text), <<>>, NotAsked, NotAsked,
                 HandleManualCityInputEff(u, text, v, TRUE))

HandleDepositAmount(u) ==
    \E text \in Texts, ok \in BOOLEAN :
        /\ Routed(u, Event("text", text), "handle_deposit_amount")
        /\ Apply(u, Event("text", text), <<>>, NotAsked, NotAsked,
                 HandleDepositAmountEff(u, text, ok))

SaveModel(u) ==
    \E text \in Texts :
        /\ Routed(u, Event("text", text), "save_model")
        /\ Apply(u, Event("text", text), <<>>, NotAsked, NotAsked,
                 SaveModelEff(u, text))

SaveModelPhoto(u) ==
    \E ref \in PhotoRefs, ok \in BOOLEAN :
        /\ Routed(u, Event("photo", ref), "save_model_photo")
        /\ Apply(u, Event("photo", ref), <<>>, NotAsked, NotAsked,
                 SaveModelPhotoEff(u, ref, ok))

HandleCallbackQueries(u) ==
    \E data \in CallbackData :
        /\ Routed(u, Event("callback", data), "handle_callback_queries")
        /\ \E ok \in IF data = D_confirm_del THEN BOOLEAN ELSE {TRUE} :
              Apply(u, Event("callback", data), <<>>, NotAsked, NotAsked,
                    HandleCallbackQueriesEff(u, data, ok))

\* An update no handler accepts: nothing runs (and what the text of a text
\* message was is not recorded).
Unhandled(u) ==
    \E kind \in {"text", "location", "photo", "inline"} :
        /\ \E t \in IF kind = "text" THEN Texts ELSE {<<>>} :
              Routed(u, Event(kind, t), "none")
        /\ Apply(u, Event(kind, <<>>), <<>>, NotAsked, NotAsked, Same(u))

\* Time passes between updates.
Tick ==
    \E d \in {ttl \div 2, ttl} :
        /\ steps < MaxSteps
        /\ now' = now + d
        /\ steps' = steps + 1
        /\ UNCHANGED <<conv, userData, dbUsers, dbModels, nextId, cache, validated,
                       resolvedLog, last>>

\* ------------------------------------------------------------------- Init

SeedModels ==
    << [id |-> 1, name |-> W_Anna, age |-> 25, city |-> W_Moskva,
        photos |-> <<"file_a">>, price |-> 5000],
       [id |-> 2, name |-> W_Anna, age |-> 18, city |-> W_Kazan,
        photos |-> <<"file_b">>, price |-> 5000] >>

\* The states a user passes only after a city was confirmed.
AfterCity == States \ {SELECT_CITY, MANUAL_CITY_INPUT}

\* user_data as the handlers that lead to state s leave it.
InitData(s) ==
    IF s = GET_MODEL_PHOTO
    THEN SetKey(SetKey(EmptyDict, "city", Lower(W_Moskva)), "new_model",
                ParseModel(Line4(W_Anna, W_25, W_Moskva, W_5000)).model)
    ELSE IF s \in AfterCity THEN SetKey(EmptyDict, "city", Lower(W_Moskva))
    ELSE EmptyDict

InitRow(s) == [city |-> IF s \in AfterCity THEN Lower(W_Moskva) ELSE NULL, balance |-> 0]

\* The conversation of each user has not begun or is at a row of the states
\* table; a user in a conversation has a users row (start inserted it); the
\* models table holds two rows; the cache is empty.
Init ==
    /\ conv \in [Users -> States \cup {NoConv}]
    /\ userData = [u \in Users |-> InitData(conv[u])]
    /\ dbUsers = [u \in {x \in Users : conv[x] # NoConv} |-> InitRow(conv[u])]
    /\ dbModels = SeedModels
    /\ nextId = Len(dbModels) + 1
    /\ cache = <<>>
    /\ resolvedLog = EmptyDict
    /\ now = 0
    /\ validated = IF \E u \in Users : conv[u] \in AfterCity THEN {W_Moskva} ELSE {}
    /\ last = [user |-> ADMIN_ID, kind |-> "init", handler |-> "init",
               inConv |-> FALSE, ret |-> RetNone, text |-> <<>>, loc |-> <<>>,
               p1 |-> NotAsked, p2 |-> NotAsked, calls |-> <<>>,
               resolved |-> <<>>, replies |-> <<>>, geocode |-> "not_asked",
               dbError |-> FALSE,
               prev |-> [user |-> ADMIN_ID, handler |-> "init", text |-> <<>>],
               pre |-> Pre]
    /\ steps = 0

Next ==
    \/ \E u \in Users : Start(u)
    \/ \E u \in Users : AdminPanel(u)
    \/ \E u \in Users : HandleLocation(u)
    \/ \E u \in Users : AskCity(u)
    \/ \E u \in Users : HandleManualCityInput(u)
    \/ \E u \in Users : HandleDepositAmount(u)
    \/ \E u \in Users : SaveModel(u)
    \/ \E u \in Users : SaveModelPhoto(u)
    \/ \E u \in Users : HandleCallbackQueries(u)
    \/ \E u \in Users : Unhandled(u)
    \/ Tick

Spec == Init /\ [][Next]_vars

\* ------------------------------------------------------- the delete flow
\* The administrator, with the selection list of delete_model_flow on
\* screen (CONFIRM_DELETE_MODEL, nothing selected yet), presses up to
\* MaxPresses buttons.

DeleteInit ==
    /\ conv = [u \in Users |-> IF u = ADMIN_ID THEN CONFIRM_DELETE_MODEL ELSE NoConv]
    /\ userData = [u \in Users |-> InitData(conv[u])]
    /\ dbUsers = [u \in {ADMIN_ID} |-> InitRow(conv[u])]
    /\ dbModels = SeedModels
    /\ nextId = Len(dbModels) + 1
    /\ cache = <<>>
    /\ resolvedLog = EmptyDict
    /\ now = 0
    /\ validated = {W_Moskva}
    /\ last = [user |-> ADMIN_ID, kind |-> "init", handler |-> "init",
               inConv |-> FALSE, ret |-> RetNone, text |-> <<>>, loc |-> <<>>,
               p1 |-> NotAsked, p2 |-> NotAsked, calls |-> <<>>,
               resolved |-> <<>>, replies |-> <<>>, geocode |-> "not_asked",
               dbError |-> FALSE,
               prev |-> [user |-> ADMIN_ID, handler |-> "init", text |-> <<>>],
               pre |-> Pre]
    /\ steps = 0

PressButton(u) ==
    \E data \in CallbackData :
        /\ steps < MaxPresses
        /\ Route(conv[u], Event("callback", data)).handler = "handle_callback_queries"
        /\ \E ok \in IF data = D_confirm_del THEN BOOLEAN ELSE {TRUE} :
              Apply(u, Event("callback", data), <<>>, NotAsked, NotAsked,
                    HandleCallbackQueriesEff(u, data, ok))

DeleteNext == PressButton(ADMIN_ID)

DeleteSpec == DeleteInit /\ [][DeleteNext]_vars

\* ------------------------------------------------- handle_inline_query
\* The InlineQueryHandler is registered in the MAIN_MENU row only, where no
\* inline query reaches it (Route); here the handler is applied to every
\* inline query of a user in MAIN_MENU, over catalogues of up to MaxModels
\* rows.

W_Mga == <<"U+041C", "g", "a">>

CatalogCities == {W_Moskva, W_Kazan, W_Mga}

\* The offset strings of an inline query: none, those the handler hands out,
\* one inside a page, a negative one and one that is no number.
Offsets == {<<>>, <<"2">>, <<"5">>, <<"1", "0">>, <<"-", "1">>, <<"p">>}

ModelRow(i, city) ==
    [id |-> i, name |-> W_Anna, age |-> 25, city |-> city,
     photos |-> <<"file_a">>, price |-> 5000]

Catalogs ==
    UNION { { [i \in 1..n |-> ModelRow(i, cs[i])] : cs \in [1..n -> CatalogCities] }
            : n \in 0..MaxModels }

InlineInit ==
    /\ conv = [u \in Users |-> MAIN_MENU]
    /\ userData = [u \in Users |-> InitData(MAIN_MENU)]
    /\ \E c \in {NULL, Lower(W_Moskva), Lower(W_Mga)} :
          dbUsers = [u \in Users |->
                       [city |-> IF u = ADMIN_ID THEN Lower(W_Moskva) ELSE c,
                        balance |-> 0]]
    /\ dbModels \in Catalogs
    /\ nextId = Len(dbModels) + 1
    /\ cache = <<>>
    /\ resolvedLog = EmptyDict
    /\ now = 0
    /\ validated = {W_Moskva, W_Mga}
    /\ last = [user |-> ADMIN_ID, kind |-> "init", handler |-> "init",
               text |-> <<>>, answer |-> HandleInlineQueryEff(dbUsers, <<>>, ADMIN_ID, <<>>, FALSE)]
    /\ steps = 0

HandleInlineQuery(u) ==
    \E offset \in Offsets, ok \in BOOLEAN :
        /\ last' = [user |-> u, kind |-> "inline", handler |-> "handle_inline_query",
                    text |-> offset,
                    answer |-> HandleInlineQueryEff(dbUsers, dbModels, u, offset, ok)]
        /\ UNCHANGED <<conv, userData, dbUsers, dbModels, nextId, cache, now,
                       validated, resolvedLog, steps>>

InlineNext == \E u \in Users : HandleInlineQuery(u)

InlineSpec == InlineInit /\ [][InlineNext]_vars

\* ----------------------------------------------------------------- claims
\* The formulas speak about the last update (last) and the state it left;
\* last.pre is the state it found.

\* The amount a deposit text denotes, in thousandths, when it denotes one.
AmountOf(text) == ParseFloat(Replace(text, ",", "."))

AmountInRange(text) ==
    AmountOf(text).ok /\ 100 * 1000 <= AmountOf(text).val
                      /\ AmountOf(text).val <= 100000 * 1000

\* Whether a model line is four fields with a name, an integer age of at
\* least 18 and an integer price above 0.
ValidModelLine(text) ==
    LET f == Split(text, "|")
    IN /\ Len(f) = 4
       /\ Strip(f[1]) # <<>>
       /\ ParseInt(f[2]).ok /\ ParseInt(f[2]).val >= 18
       /\ ParseInt(f[4]).ok /\ ParseInt(f[4]).val > 0

\* C1: a city name that fails forward validation in the manual city input
\* handler leaves the session in MANUAL_CITY_INPUT and the users table as it
\* was, and the city of every users row is a name that passed validation.
C1_RejectedCityNotPersisted ==
    /\ (last.handler = "handle_manual_city_input"
        /\ "city_not_found" \in {last.replies[i] : i \in 1..Len(last.replies)})
       => /\ conv[last.user] = MANUAL_CITY_INPUT
          /\ dbUsers = last.pre.dbUsers
    /\ \A u \in DOMAIN dbUsers :
          \/ dbUsers[u].city = NULL
          \/ \E n \in validated : dbUsers[u].city = Lower(n)

\* C2: in CONFIRM_CITY the button confirm_city moves the session to
\* MAIN_MENU, and the city of the user's row is the lower-cased candidate.
C2_ConfirmCityReachesMainMenu ==
    (last.handler = "handle_callback_queries" /\ last.text = D_confirm_city
     /\ last.pre.conv[last.user] = CONFIRM_CITY)
    => /\ conv[last.user] = MAIN_MENU
       /\ last.user \in DOMAIN dbUsers
       /\ dbUsers[last.user].city = last.pre.userData[last.user]["city"]

\* C3: a text in DEPOSIT_AMOUNT changes the stored balance only if it
\* denotes an amount from 100 to 100000; any other text leaves the users
\* table as it was and the session in DEPOSIT_AMOUNT.
C3_DepositOnlyInRange ==
    last.handler = "handle_deposit_amount"
    => /\ dbUsers # last.pre.dbUsers => AmountInRange(last.text)
       /\ ~AmountInRange(last.text)
          => dbUsers = last.pre.dbUsers /\ conv[last.user] = DEPOSIT_AMOUNT

\* A text below the minimum was rejected in DEPOSIT_AMOUNT.
C3_Witness ==
    /\ last.handler = "handle_deposit_amount"
    /\ last.text = W_99
    /\ last.replies = <<"deposit_bad">>
    /\ conv[last.user] = DEPOSIT_AMOUNT

\* C4: a text in DEPOSIT_AMOUNT that denotes an amount in range credits the
\* balance by exactly amount x 100 kopecks and moves the session to
\* MAIN_MENU.
C4_DepositCreditsAndReachesMainMenu ==
    (last.handler = "handle_deposit_amount" /\ AmountInRange(last.text))
    => /\ conv[last.user] = MAIN_MENU
       /\ 10 * (dbUsers[last.user].balance - last.pre.dbUsers[last.user].balance)
            = AmountOf(last.text).val

\* C5: a line in GET_MODEL_DATA that is not valid stores no draft and leaves
\* the session in GET_MODEL_DATA; a valid line stores its draft and moves
\* the session to GET_MODEL_PHOTO.
C5_DraftAllOrNothing ==
    last.handler = "save_model"
    => IF ValidModelLine(last.text)
       THEN /\ conv[last.user] = GET_MODEL_PHOTO
            /\ "new_model" \in DOMAIN userData[last.user]
       ELSE /\ conv[last.user] = GET_MODEL_DATA
            /\ "new_model" \notin DOMAIN userData[last.user]
            /\ userData[last.user] = last.pre.userData[last.user]

\* A line with age 17 was rejected in GET_MODEL_DATA.
C5_Witness ==
    /\ last.handler = "save_model"
    /\ last.text = Line4(W_Anna, W_17, W_Moskva, W_5000)
    /\ conv[last.user] = GET_MODEL_DATA
    /\ last.replies = <<"format_error">>

\* C6: a photo in GET_MODEL_PHOTO with a stored draft inserts exactly one
\* models row, with the draft's name, age, city and price and the photo's
\* file id, and moves the session to MAIN_MENU.
C6_PhotoInsertsDraftAndReachesMainMenu ==
    (last.handler = "save_model_photo"
     /\ "new_model" \in DOMAIN last.pre.userData[last.user])
    => LET draft == last.pre.userData[last.user]["new_model"]
           n == Len(last.pre.dbModels)
       IN /\ conv[last.user] = MAIN_MENU
          /\ Len(dbModels) = n + 1
          /\ SubSeq(dbModels, 1, n) = last.pre.dbModels
          /\ dbModels[n + 1].name = draft.name
          /\ dbModels[n + 1].age = draft.age
          /\ dbModels[n + 1].city = draft.city
          /\ dbModels[n + 1].price = draft.price
          /\ dbModels[n + 1].photos = last.text

\* The coordinates of the last update were resolved by the providers before
\* and less than 3600 s have passed since.
ResolvedWithinTtl ==
    /\ last.loc \in DOMAIN last.pre.resolvedLog
    /\ last.pre.now < last.pre.resolvedLog[last.loc].at + 3600

PrimaryGaveNoField ==
    \/ last.p1.kind = "none"
    \/ /\ last.p1.kind = "found"
       /\ \A i \in 1..Len(AddressFields) : last.p1.address[AddressFields[i]] = NULL

\* C8: for an uncached coordinate pair for which the primary provider gives
\* no result or no address field, the secondary provider is asked exactly
\* once, after the primary.
C8_SecondaryAskedOnceAfterPrimary ==
    (last.handler = "handle_location" /\ ~ResolvedWithinTtl /\ PrimaryGaveNoField)
    => last.calls = <<"primary", "secondary">>

\* The primary provider gave no result, the secondary was asked and had
\* none either: 'Unknown'.
C8_Witness ==
    /\ last.handler = "handle_location"
    /\ last.p1.kind = "none"
    /\ last.calls = <<"primary", "secondary">>
    /\ last.resolved = UNKNOWN
    /\ conv[last.user] = MANUAL_CITY_INPUT

\* C9: when the primary provider raises, the secondary provider is still
\* asked, and a usable value of it is the city returned.
C9_PrimaryExceptionFallsBackToSecondary ==
    (last.handler = "handle_location" /\ ~ResolvedWithinTtl /\ last.p1.kind = "raise")
    => /\ last.calls = <<"primary", "secondary">>
       /\ (last.p2.kind = "found" /\ PickComponent(last.p2.components) # UNKNOWN)
          => last.resolved = PickComponent(last.p2.components)

ModerationStates == {GET_MODEL_DATA, GET_MODEL_PHOTO, CONFIRM_DELETE_MODEL}

\* C10: no update of a user other than the administrator moves that user's
\* session into GET_MODEL_DATA, GET_MODEL_PHOTO or CONFIRM_DELETE_MODEL, or
\* inserts or deletes a models row.
C10_ModerationOnlyForAdministrator ==
    (last.handler # "init" /\ last.user # ADMIN_ID)
    => /\ last.pre.conv[last.user] \notin ModerationStates
          => conv[last.user] \notin ModerationStates
       /\ dbModels = last.pre.dbModels

\* C11: the admin command of the administrator opens the moderation menu and
\* leaves the session's state as it was; the admin command of any other user
\* is answered with the rejection alone and ends that user's conversation.
C11_AdminCommandGatedByIdentity ==
    last.kind = "admin"
    => IF last.user = ADMIN_ID
       THEN /\ last.replies = <<"admin_panel">>
            /\ conv[last.user] = last.pre.conv[last.user]
       ELSE /\ last.replies = <<"access_denied">>
            /\ conv[last.user] = NoConv

\* Another user sent the admin command while in DEPOSIT_AMOUNT, was rejected
\* and has no conversation any more.
C11_Witness ==
    /\ last.kind = "admin"
    /\ last.user # ADMIN_ID
    /\ last.pre.conv[last.user] = DEPOSIT_AMOUNT
    /\ last.replies = <<"access_denied">>
    /\ conv[last.user] = NoConv

C13_NewSessionStartsInSelectCity ==
    (last.handler = "handle_callback_queries" /\ last.text = D_continue
     /\ last.prev.handler = "start" /\ last.prev.user = last.user
     /\ last.pre.conv[last.user] = NoConv)
    => conv[last.user] = SELECT_CITY

\* C14 as stated: a location in SELECT_CITY that is resolved to a city moves
\* the session to CONFIRM_CITY with that city as the candidate; one that is
\* resolved to 'Unknown' moves it to MANUAL_CITY_INPUT.
C14_LocationResolvedReachesConfirmCity ==
    last.handler = "handle_location"
    => IF last.resolved # UNKNOWN
       THEN /\ conv[last.user] = CONFIRM_CITY
            /\ "city" \in DOMAIN userData[last.user]
            /\ userData[last.user]["city"] = Lower(last.resolved)
       ELSE conv[last.user] = MANUAL_CITY_INPUT

\* C14: a location in SELECT_CITY that is resolved to a city which forward
\* validation accepts moves the session to CONFIRM_CITY with that city as the
\* candidate; one that is resolved to 'Unknown', or to a city which forward
\* validation does not accept, moves it to MANUAL_CITY_INPUT.
C14_LocationValidatedReachesConfirmCity ==
    last.handler = "handle_location"
    => IF last.resolved # UNKNOWN /\ last.geocode = "found"
       THEN /\ conv[last.user] = CONFIRM_CITY
            /\ "city" \in DOMAIN userData[last.user]
            /\ userData[last.user]["city"] = Lower(last.resolved)
       ELSE conv[last.user] = MANUAL_CITY_INPUT

\* A location was resolved to Kazan, forward validation found nothing, and
\* the session is in MANUAL_CITY_INPUT.
C14_Witness ==
    /\ last.handler = "handle_location"
    /\ last.resolved = W_Kazan
    /\ last.geocode = "none"
    /\ last.replies = <<"city_not_found">>
    /\ conv[last.user] = MANUAL_CITY_INPUT

\* C15: a text message other than the manual-entry button, in SELECT_CITY or
\* in MANUAL_CITY_INPUT, is forward-validated and moves the session to
\* CONFIRM_CITY when validation accepts it and to MANUAL_CITY_INPUT when it
\* does not.
C15_CityTextValidatedInBothStates ==
    (last.kind = "text" /\ last.text # MANUAL_BUTTON_TEXT
     /\ last.pre.conv[last.user] \in {SELECT_CITY, MANUAL_CITY_INPUT})
    => /\ last.geocode # "not_asked"
       /\ last.geocode = "found" => conv[last.user] = CONFIRM_CITY
       /\ last.geocode # "found" => conv[last.user] = MANUAL_CITY_INPUT

\* C16: in CONFIRM_CITY the button change_city moves the session to
\* SELECT_CITY.
C16_ChangeCityReachesSelectCity ==
    (last.handler = "handle_callback_queries" /\ last.text = D_change_city
     /\ last.pre.conv[last.user] = CONFIRM_CITY)
    => conv[last.user] = SELECT_CITY

\* The messages the last update was answered with.
Replies == { last.replies[i] : i \in 1..Len(last.replies) }

\* C17: when the administrator has selected an existing model and presses
\* confirm_del in CONFIRM_DELETE_MODEL, and the store accepts the DELETE, exactly the selected row is
\* gone, the handler does not fail and the moderation menu is shown.
C17_ConfirmDelDeletesSelectedAndShowsMenu ==
    (last.handler = "handle_callback_queries" /\ last.text = D_confirm_del
     /\ last.user = ADMIN_ID /\ ~last.dbError
     /\ last.pre.conv[last.user] = CONFIRM_DELETE_MODEL
     /\ "pending_delete" \in DOMAIN last.pre.userData[last.user]
     /\ \E i \in 1..Len(last.pre.dbModels) :
            last.pre.dbModels[i].id = last.pre.userData[last.user]["pending_delete"])
    => LET id == last.pre.userData[last.user]["pending_delete"]
       IN /\ dbModels = SelectSeq(last.pre.dbModels, LAMBDA m : m.id # id)
          /\ last.ret # Raised
          /\ "admin_panel" \in Replies

\* C18: no cache entry holds 'Unknown'; a resolution that returns 'Unknown'
\* leaves the cache as it was; a resolution that returns a city leaves that
\* city under the coordinate key, unexpired, and with 3600 s to live when the
\* providers were asked.
C18_CacheNeverHoldsUnknown ==
    /\ \A i \in 1..Len(cache) : cache[i].value # UNKNOWN
    /\ last.handler = "handle_location"
       => IF last.resolved = UNKNOWN
          THEN cache = last.pre.cache
          ELSE \E i \in 1..Len(cache) :
                  /\ cache[i].key = last.loc
                  /\ cache[i].value = last.resolved
                  /\ last.pre.now < cache[i].expires
                  /\ last.calls # <<>> => cache[i].expires = last.pre.now + 3600

\* With one city cached, both providers were asked about other coordinates,
\* neither had a usable value, and the cache is as it was.
C18_Witness ==
    /\ last.handler = "handle_location"
    /\ last.resolved = UNKNOWN
    /\ last.calls = <<"primary", "secondary">>
    /\ Len(last.pre.cache) = 1
    /\ cache = last.pre.cache

\* C19: a message, button press or inline query that the state of the
\* session does not accept is answered with nothing and leaves the session's
\* state, the session's data and the models table as they were.
C19_UnacceptedEventIgnored ==
    (last.kind \in {"text", "location", "photo", "callback", "inline"}
     /\ last.pre.conv[last.user] \in States /\ ~last.inConv)
    => /\ last.replies = <<>>
       /\ conv[last.user] = last.pre.conv[last.user]
       /\ userData[last.user] = last.pre.userData[last.user]
       /\ dbModels = last.pre.dbModels

\* C20: when the INSERT of the new model fails in GET_MODEL_PHOTO, the user
\* is sent the failure message and not the success message, the models table
\* is as it was, the draft is gone and the handler does not fail.
C20_FailedModelWriteIsReported ==
    (last.handler = "save_model_photo" /\ last.dbError
     /\ "new_model" \in DOMAIN last.pre.userData[last.user])
    => /\ "model_save_error" \in Replies
       /\ "model_added" \notin Replies
       /\ dbModels = last.pre.dbModels
       /\ "new_model" \notin DOMAIN userData[last.user]
       /\ last.ret # Raised

\* The models of the city of the user of the last inline query, in table
\* order: those whose city, in lower case, is the city of the user's row.
CityModels ==
    SelectSeq(dbModels, LAMBDA m : Lower(m.city) = dbUsers[last.user].city)

\* C21: an inline query at offset k of a user with a city is answered with
\* rows k .. k+4 of that city's models, at most 5; a continuation token is
\* given only when there are rows beyond the page, and then it is k + 5.
C21_InlinePageAndContinuation ==
    (last.handler = "handle_inline_query" /\ last.answer.kind = "page"
     /\ (last.text = <<>> \/ ParseInt(last.text).val >= 0))
    => LET k == IF last.text = <<>> THEN 0 ELSE ParseInt(last.text).val
           n == Len(CityModels)
       IN /\ Len(last.answer.results) <= 5
          /\ last.answer.results
               = SubSeq(CityModels, k + 1, IF k + 5 < n THEN k + 5 ELSE n)
          /\ last.answer.next_offset # NULL
               => n > k + 5 /\ last.answer.next_offset = Str(k + 5)
          /\ n <= k + 5 => last.answer.next_offset = NULL

\* C22: every models row inserted since the start has a name, an age of at
\* least 18 and a price above 0, and the update that inserted a row was a
\* photo of a user whose session data held the draft the row was made from.
C22_InsertedModelsComeFromValidDrafts ==
    /\ \A i \in 1..Len(dbModels) :
          dbModels[i].id > Len(SeedModels)
          => /\ dbModels[i].name # <<>>
             /\ dbModels[i].age >= 18
             /\ dbModels[i].price > 0
    /\ Len(dbModels) > Len(last.pre.dbModels)
       => /\ last.handler = "save_model_photo"
          /\ "new_model" \in DOMAIN last.pre.userData[last.user]
          /\ LET draft == last.pre.userData[last.user]["new_model"]
                 row == dbModels[Len(dbModels)]
             IN /\ row.name = draft.name /\ row.age = draft.age
                /\ row.city = draft.city /\ row.price = draft.price

\* A line with age 18 was accepted in GET_MODEL_DATA and the photo that
\* followed inserted its row.
C22_Witness ==
    /\ last.handler = "save_model_photo"
    /\ last.prev.handler = "save_model"
    /\ last.prev.user = last.user
    /\ Len(dbModels) = Len(SeedModels) + 1
    /\ dbModels[Len(dbModels)].age = 18
    /\ dbModels[Len(dbModels)].city = W_Kazan

\* C23: pressing cancel_del after a selection leaves the session in
\* CONFIRM_DELETE_MODEL and the models table as it was, and a confirm_del
\* pressed next, with no new selection, leaves the models table as it was.
C23_CancelDiscardsSelection ==
    /\ (last.handler = "handle_callback_queries" /\ last.text = D_cancel_del
        /\ StartsWith(last.prev.text, D_del_) /\ last.prev.user = last.user
        /\ last.pre.conv[last.user] = CONFIRM_DELETE_MODEL)
       => /\ conv[last.user] = CONFIRM_DELETE_MODEL
          /\ dbModels = last.pre.dbModels
    /\ (last.handler = "handle_callback_queries" /\ last.text = D_confirm_del
        /\ last.prev.text = D_cancel_del /\ last.prev.user = last.user
        /\ last.pre.conv[last.user] = CONFIRM_DELETE_MODEL)
       => dbModels = last.pre.dbModels
====
